---- MODULE Spec2Model ----
(***************************************************************************)
(* Model of scripts/format_html.py: the regex-driven span reflower         *)
(* (pattern, transform, repl) and the file driver (process_file, main).    *)
(* Text is a sequence of one-character strings.                            *)
(***************************************************************************)
EXTENDS Integers, Sequences, FiniteSets, TLC

VARIABLES
    html,      \* transform: the document passed to pattern.sub
    pos,       \* transform: index where pattern.sub resumes scanning
    out,       \* transform: output accumulated by pattern.sub
    pc,        \* transform: "scan" | "done" | "idle"
    argv,      \* main: sys.argv[1:], a sequence of glob patterns
    argi,      \* main: index of the argument being expanded
    queue,     \* main: entries of the current glob still to visit (sorted)
    fs,        \* main: file contents, path -> text
    reads,     \* main: paths on which read_text was called, in order
    writes,    \* main: paths on which write_text was called, in order
    io,        \* main: path -> "ok" | "noread" | "nowrite" (OS-level outcome)
    mpc        \* main: "start" | "loop" | "exit0" | "exit1" | "raised" | "idle"

vars == <<html, pos, out, pc, argv, argi, queue, fs, reads, writes, io, mpc>>

textVars == <<html, pos, out, pc>>
mainVars == <<argv, argi, queue, fs, reads, writes, io, mpc>>

----------------------------------------------------------------------------
(* Bounds *)

MaxText == 4     \* longest inner text of a generated span
MaxArgs == 2     \* most command-line arguments

----------------------------------------------------------------------------
(* Settings and classification tables *)

INDENT == <<" ", " ">>
COLLAPSE_WHITESPACE == TRUE
TRIM_TEXT == TRUE

VOID ==
    { <<"a", "r", "e", "a">>,
      <<"b", "a", "s", "e">>,
      <<"b", "r">>,
      <<"c", "o", "l">>,
      <<"e", "m", "b", "e", "d">>,
      <<"h", "r">>,
      <<"i", "m", "g">>,
      <<"i", "n", "p", "u", "t">>,
      <<"l", "i", "n", "k">>,
      <<"m", "e", "t", "a">>,
      <<"p", "a", "r", "a", "m">>,
      <<"s", "o", "u", "r", "c", "e">>,
      <<"t", "r", "a", "c", "k">>,
      <<"w", "b", "r">> }

EXCLUDED ==
    { <<"s", "c", "r", "i", "p", "t">>,
      <<"s", "t", "y", "l", "e">>,
      <<"p", "r", "e">>,
      <<"t", "e", "x", "t", "a", "r", "e", "a">>,
      <<"t", "e", "m", "p", "l", "a", "t", "e">>,
      <<"s", "v", "g">>,
      <<"m", "a", "t", "h">>,
      <<"n", "o", "s", "c", "r", "i", "p", "t">>,
      <<"c", "o", "d", "e">> }

----------------------------------------------------------------------------
(* Character classes of the regex engine and str methods *)

UpperLetters ==
    <<"A","B","C","D","E","F","G","H","I","J","K","L","M",
      "N","O","P","Q","R","S","T","U","V","W","X","Y","Z">>

LowerLetters ==
    <<"a","b","c","d","e","f","g","h","i","j","k","l","m",
      "n","o","p","q","r","s","t","u","v","w","x","y","z">>

Digits == {"0","1","2","3","4","5","6","7","8","9"}

\* [A-Za-z]
IsLetter(c) == \E i \in 1..26 : c = UpperLetters[i] \/ c = LowerLetters[i]

\* \w
IsWord(c) == IsLetter(c) \/ c \in Digits \/ c = "_"

\* [\w:-]
IsNameChar(c) == IsWord(c) \/ c = ":" \/ c = "-"

\* \s, and the characters str.strip() removes
IsSpace(c) == c \in {" ", "\t", "\n", "\r", "\f"}

\* str.lower() on one character
lowerChar(c) ==
    IF \E i \in 1..26 : c = UpperLetters[i]
    THEN LowerLetters[CHOOSE i \in 1..26 : c = UpperLetters[i]]
    ELSE c

\* str.lower()
lower(s) == [i \in 1..Len(s) |-> lowerChar(s[i])]

Min(S) == CHOOSE x \in S : \A y \in S : x <= y
Max(S) == CHOOSE x \in S : \A y \in S : x >= y

\* least index >= from holding character c, 0 when there is none
FirstIndex(d, from, c) ==
    LET S == { i \in from..Len(d) : d[i] = c }
    IN IF S = {} THEN 0 ELSE Min(S)

----------------------------------------------------------------------------
\* pattern = <([A-Za-z][\w:-]*)\b([^>]*)>\s*([^<][^<]*?)\s*</\1>

NoMatch ==
    [start |-> 0, end |-> 0, gt |-> 0, lt |-> 0,
     tag |-> <<>>, attrs |-> <<>>, inner |-> <<>>, group0 |-> <<>>]

\* [A-Za-z][\w:-]*
IsTagName(t) ==
    /\ Len(t) >= 1
    /\ IsLetter(t[1])
    /\ \A k \in 2..Len(t) : IsNameChar(t[k])

\* \b between d[e] and d[e+1]
WordBoundary(d, e) ==
    IsWord(d[e]) # (e + 1 <= Len(d) /\ IsWord(d[e + 1]))

\* The match of pattern that starts exactly at index s, or NoMatch.
\*   gt : the '>' ending the open tag; [^>]* cannot cross a '>', so it is
\*        the first '>' after s
\*   lt : the '<' of the close tag; \s*, [^<] and [^<]*? cannot cross a '<',
\*        so it is the first '<' after gt, and at least one character must
\*        lie between them for [^<]
\*   e  : end of group 1; greedy, so the longest name followed by \b for
\*        which the rest of the pattern matches
\*   a,b: group 3; the leading \s* is greedy but must leave one character
\*        for [^<]; [^<]*? is lazy and stops as soon as only whitespace
\*        remains before the close tag
MatchAt(d, s) ==
    LET n  == Len(d)
        gt == FirstIndex(d, s + 1, ">")
        lt == IF gt = 0 THEN 0 ELSE FirstIndex(d, gt + 1, "<")
        Closes(e) ==
            LET tag == SubSeq(d, s + 1, e)
            IN /\ lt + 2 + Len(tag) <= n
               /\ SubSeq(d, lt, lt + 2 + Len(tag)) = <<"<", "/">> \o tag \o <<">">>
        TagEnds ==
            IF gt = 0 \/ lt = 0 \/ lt <= gt + 1 THEN {}
            ELSE { e \in (s + 1)..(gt - 1) :
                     /\ IsTagName(SubSeq(d, s + 1, e))
                     /\ WordBoundary(d, e)
                     /\ Closes(e) }
    IN IF s > n \/ d[s] # "<" \/ TagEnds = {} THEN NoMatch
       ELSE
         LET e == Max(TagEnds)
             NonSpace == { k \in (gt + 1)..(lt - 1) : ~IsSpace(d[k]) }
             a == IF NonSpace = {} THEN lt - 1 ELSE Min(NonSpace)
             b == IF NonSpace = {} THEN lt - 1 ELSE Max(NonSpace)
             end == lt + 2 + (e - s)
         IN [start |-> s, end |-> end, gt |-> gt, lt |-> lt,
             tag    |-> SubSeq(d, s + 1, e),
             attrs  |-> SubSeq(d, e + 1, gt - 1),
             inner  |-> SubSeq(d, a, b),
             group0 |-> SubSeq(d, s, end)]

\* faulty variant of search: only a match starting exactly at from
search_Anchored(d, from) == MatchAt(d, from)

\* pattern.search(d, from): the leftmost match starting at or after from
search(d, from) ==
    LET S == { s \in from..Len(d) : MatchAt(d, s) # NoMatch }
    IN IF S = {} THEN NoMatch ELSE MatchAt(d, Min(S))

----------------------------------------------------------------------------
(* repl and its helpers *)

\* re.sub(r"\s+", " ", text)
RECURSIVE CollapseFrom(_, _)
CollapseFrom(t, i) ==
    IF i > Len(t) THEN <<>>
    ELSE IF IsSpace(t[i])
         THEN LET rest == { k \in (i + 1)..Len(t) : ~IsSpace(t[k]) }
                  nxt  == IF rest = {} THEN Len(t) + 1 ELSE Min(rest)
              IN <<" ">> \o CollapseFrom(t, nxt)
         ELSE <<t[i]>> \o CollapseFrom(t, i + 1)

\* faulty variant of Collapse: one space per whitespace character
RECURSIVE CollapseEach(_, _)
CollapseEach(t, i) ==
    IF i > Len(t) THEN <<>>
    ELSE (IF IsSpace(t[i]) THEN <<" ">> ELSE <<t[i]>>) \o CollapseEach(t, i + 1)

Collapse_PerChar(t) == CollapseEach(t, 1)

Collapse(t) == CollapseFrom(t, 1)

\* text.strip()
strip(t) ==
    LET NonSpace == { k \in 1..Len(t) : ~IsSpace(t[k]) }
    IN IF NonSpace = {} THEN <<>> ELSE SubSeq(t, Min(NonSpace), Max(NonSpace))

Reflowed(tag, attrs, text) ==
    <<"<">> \o tag \o attrs \o <<">">> \o <<"\n">> \o INDENT \o text
        \o <<"\n">> \o <<"<", "/">> \o tag \o <<">">>

\* faulty variants of repl, against which the properties are tested
repl_NoNormalise(m) ==
    LET tag == lower(m.tag)
    IN IF tag \in VOID \/ tag \in EXCLUDED THEN m.group0
       ELSE IF m.inner = <<>> THEN m.group0
       ELSE Reflowed(tag, m.attrs, m.inner)

repl_RawTagLookup(m) ==
    LET text == strip(Collapse(m.inner))
    IN IF m.tag \in VOID \/ m.tag \in EXCLUDED THEN m.group0
       ELSE IF text = <<>> THEN m.group0
       ELSE Reflowed(lower(m.tag), m.attrs, text)

repl_NoEmptyCheck(m) ==
    LET tag == lower(m.tag)
    IN IF tag \in VOID \/ tag \in EXCLUDED THEN m.group0
       ELSE Reflowed(tag, m.attrs, strip(Collapse(m.inner)))

repl_LowerOpenTag(m) ==
    LET tag  == lower(m.tag)
        text == strip(Collapse(m.inner))
    IN IF tag \in VOID \/ tag \in EXCLUDED THEN m.group0
       ELSE IF text = <<>> THEN m.group0
       ELSE Reflowed(tag, lower(m.attrs), text)

repl(m) ==
    LET tag   == lower(m.tag)
        attrs == m.attrs
        inner == m.inner
        text1 == IF COLLAPSE_WHITESPACE THEN Collapse(inner) ELSE inner
        text  == IF TRIM_TEXT THEN strip(text1) ELSE text1
    IN IF tag \in VOID \/ tag \in EXCLUDED THEN m.group0
       ELSE IF text = <<>> THEN m.group0
       ELSE Reflowed(tag, attrs, text)

----------------------------------------------------------------------------
(* transform: pattern.sub(repl, html) *)

RECURSIVE sub(_, _, _)
sub(d, from, acc) ==
    LET m == search(d, from)
    IN IF m = NoMatch THEN acc \o SubSeq(d, from, Len(d))
       ELSE sub(d, m.end + 1, acc \o SubSeq(d, from, m.start - 1) \o repl(m))

transform(d) == sub(d, 1, <<>>)

----------------------------------------------------------------------------
(* Documents fed to transform *)

TagNames ==
    { <<"p">>, <<"P">>, <<"p", "r", "e">>, <<"P", "r", "e">>, <<"b", "r">> }

AttrTexts == { <<>>, <<" ", "K">> }

TextChars == {"x", " ", "\n"}

Texts == UNION { [1..n -> TextChars] : n \in 0..MaxText }

OpenTag(t, a) == <<"<">> \o t \o a \o <<">">>
CloseTag(t)   == <<"<", "/">> \o t \o <<">">>

DivOpen  == <<"<", "d", "i", "v", ">">>
DivClose == <<"<", "/", "d", "i", "v", ">">>
PreOpen  == <<"<", "p", "r", "e", ">">>
PreClose == <<"<", "/", "p", "r", "e", ">">>

\* what surrounds the generated span: nothing, an excluded element, a plain
\* element, an earlier span, or an unterminated open tag that makes the span's own open tag
\* part of an attribute text
Wraps ==
    { <<(<<>>), (<<>>)>>,
      <<PreOpen, PreClose>>,
      <<DivOpen, DivClose>>,
      <<DivOpen \o <<"y", " ">>, <<" ", "y">> \o DivClose>>,
      <<(<<"<", "b", ">", " ", "y", "<", "/", "b", ">">>), (<<>>)>>,
      <<(<<"<", "p", " ">>), (<<>>)>> }

SpanDocs ==
    { OpenTag(t, a) \o x \o CloseTag(c) :
        <<t, c>> \in { tc \in TagNames \X TagNames : tc[2] \in {tc[1], lower(tc[1])} },
        a \in AttrTexts, x \in Texts }

ExCollapse ==
    <<"<", "p", ">", "a", " ", " ", " ", "b", "\n", "\n", "c", "<", "/", "p", ">">>
ExCollapseOut ==
    <<"<", "p", ">", "\n", " ", " ", "a", " ", "b", " ", "c", "\n", "<", "/", "p", ">">>
ExBlank == <<"<", "p", ">", " ", " ", " ", "<", "/", "p", ">">>
ExNested ==
    <<"<", "d", "i", "v", ">", "<", "s", "p", "a", "n", ">", "x",
      "<", "/", "s", "p", "a", "n", ">", "<", "/", "d", "i", "v", ">">>
ExNestedOut ==
    <<"<", "d", "i", "v", ">", "<", "s", "p", "a", "n", ">", "\n", " ", " ", "x", "\n",
      "<", "/", "s", "p", "a", "n", ">", "<", "/", "d", "i", "v", ">">>
ExPre ==
    <<"<", "p", "r", "e", ">", " ", " ", "x", "\n", " ", " ", "y", " ", " ",
      "<", "/", "p", "r", "e", ">">>
ExAttr ==
    <<"<", "a", " ", "h", "r", "e", "f", "=", "\"", "x", "\"", ">", "h", "i",
      "<", "/", "a", ">">>
ExBr == <<"<", "b", "r", ">">>
ExPreNested ==
    <<"<", "p", "r", "e", ">", "<", "b", ">", "a", " ", " ", "b", "<", "/", "b", ">",
      "<", "/", "p", "r", "e", ">">>
ExUpper == <<"<", "P", ">", "x", "<", "/", "P", ">">>
ExampleReflowed == <<"<", "p", ">", "\n", " ", " ", "x", "\n", "<", "/", "p", ">">>

Examples ==
    { ExCollapse, ExBlank, ExNested, ExPre, ExAttr, ExBr, ExPreNested, ExUpper }

Docs == { w[1] \o s \o w[2] : w \in Wraps, s \in SpanDocs } \cup Examples

----------------------------------------------------------------------------
(* transform as the steps of pattern.sub *)

TextIdle ==
    /\ html = <<>> /\ pos = 0 /\ out = <<>> /\ pc = "idle"

MainIdle ==
    /\ argv = <<>> /\ argi = 0 /\ queue = <<>> /\ fs = <<>>
    /\ reads = <<>> /\ writes = <<>> /\ io = <<>> /\ mpc = "idle"

Init ==
    /\ html \in Docs
    /\ pos = 1
    /\ out = <<>>
    /\ pc = "scan"
    /\ MainIdle

\* pattern.sub found the next match: copy the text before it, call repl
SubReplace ==
    /\ pc = "scan"
    /\ LET m == search(html, pos)
       IN /\ m # NoMatch
          /\ out' = out \o SubSeq(html, pos, m.start - 1) \o repl(m)
          /\ pos' = m.end + 1
    /\ UNCHANGED <<html, pc>>
    /\ UNCHANGED mainVars

\* no further match: copy the rest and return
SubTail ==
    /\ pc = "scan"
    /\ search(html, pos) = NoMatch
    /\ out' = out \o SubSeq(html, pos, Len(html))
    /\ pos' = Len(html) + 1
    /\ pc' = "done"
    /\ UNCHANGED html
    /\ UNCHANGED mainVars

Next == SubReplace \/ SubTail

Spec == Init /\ [][Next]_vars

----------------------------------------------------------------------------
(* process_file and main *)

HtmlSuffix == <<".", "h", "t", "m", "l">>

\* the directory listing: kind and suffix of every entry; the index order is
\* the order sorted() gives the paths
PathTable ==
    << [kind |-> "file", suffix |-> <<".", "h", "t", "m", "l">>],
       [kind |-> "file", suffix |-> <<".", "H", "T", "M", "L">>],
       [kind |-> "file", suffix |-> <<".", "t", "x", "t">>],
       [kind |-> "dir",  suffix |-> <<".", "h", "t", "m", "l">>] >>

Paths == DOMAIN PathTable

\* pathlib.Path().glob(arg): the entries a pattern matches
glob(arg) ==
    CASE arg = "*"      -> {1, 2, 3, 4}
      [] arg = "*.html" -> {1, 4}
      [] arg = "b.HTML" -> {2}
      [] OTHER          -> {}

Patterns == {"*", "*.html", "b.HTML", "none"}

\* sorted(S) for a set of paths
RECURSIVE sorted(_)
sorted(S) ==
    IF S = {} THEN <<>> ELSE <<Min(S)>> \o sorted(S \ {Min(S)})

\* p.is_file() and p.suffix.lower() == ".html"
Selected(p) ==
    PathTable[p].kind = "file" /\ lower(PathTable[p].suffix) = HtmlSuffix

FileTexts == { OpenTag(<<"p">>, <<>>) \o <<"x">> \o CloseTag(<<"p">>), ExPre }

\* faulty variant of process_file: writes without comparing
process_file_AlwaysWrite(p, f, r, w) ==
    IF io[p] = "noread"
    THEN [fs |-> f, reads |-> Append(r, p), writes |-> w, raised |-> TRUE]
    ELSE LET new_html == transform(f[p])
         IN IF io[p] = "nowrite"
            THEN [fs |-> f, reads |-> Append(r, p),
                  writes |-> Append(w, p), raised |-> TRUE]
            ELSE [fs |-> [f EXCEPT ![p] = new_html], reads |-> Append(r, p),
                  writes |-> Append(w, p), raised |-> FALSE]

\* process_file(p): the state after the call; raised is TRUE when read_text
\* or write_text raised
process_file(p, f, r, w) ==
    IF io[p] = "noread"
    THEN [fs |-> f, reads |-> Append(r, p), writes |-> w, raised |-> TRUE]
    ELSE LET new_html == transform(f[p])
         IN IF new_html # f[p]
            THEN IF io[p] = "nowrite"
                 THEN [fs |-> f, reads |-> Append(r, p),
                       writes |-> Append(w, p), raised |-> TRUE]
                 ELSE [fs |-> [f EXCEPT ![p] = new_html], reads |-> Append(r, p),
                       writes |-> Append(w, p), raised |-> FALSE]
            ELSE [fs |-> f, reads |-> Append(r, p), writes |-> w, raised |-> FALSE]

InitMain ==
    /\ TextIdle
    /\ argv \in UNION { [1..n -> Patterns] : n \in 0..MaxArgs }
    /\ argi = 0
    /\ queue = <<>>
    /\ fs \in { f \in [Paths -> FileTexts \cup {<<>>}] :
                  \A p \in Paths : (PathTable[p].kind = "dir") <=> (f[p] = <<>>) }
    /\ io \in { o \in [Paths -> {"ok", "noread", "nowrite"}] :
                  \A p \in Paths : PathTable[p].kind = "dir" => o[p] = "ok" }
    /\ reads = <<>>
    /\ writes = <<>>
    /\ mpc = "start"

\* main, lines 50-52: no arguments prints the usage and exits with status 1
Start ==
    /\ mpc = "start"
    /\ mpc' = IF Len(argv) < 1 THEN "exit1" ELSE "loop"
    /\ UNCHANGED <<argv, argi, queue, fs, reads, writes, io>>
    /\ UNCHANGED textVars

\* the outer loop takes the next argument and expands it
NextArg ==
    /\ mpc = "loop"
    /\ queue = <<>>
    /\ argi < Len(argv)
    /\ argi' = argi + 1
    /\ queue' = sorted(glob(argv[argi + 1]))
    /\ UNCHANGED <<argv, fs, reads, writes, io, mpc>>
    /\ UNCHANGED textVars

\* the inner loop body for one entry; an exception of process_file is not
\* caught anywhere and ends the run
Visit ==
    /\ mpc = "loop"
    /\ queue # <<>>
    /\ LET p == Head(queue)
           r == process_file(p, fs, reads, writes)
       IN IF Selected(p)
          THEN /\ fs' = r.fs
               /\ reads' = r.reads
               /\ writes' = r.writes
               /\ mpc' = IF r.raised THEN "raised" ELSE "loop"
          ELSE UNCHANGED <<fs, reads, writes, mpc>>
    /\ queue' = Tail(queue)
    /\ UNCHANGED <<argv, argi, io>>
    /\ UNCHANGED textVars

\* both loops are exhausted: main returns, exit status 0
Return ==
    /\ mpc = "loop"
    /\ queue = <<>>
    /\ argi = Len(argv)
    /\ mpc' = "exit0"
    /\ UNCHANGED <<argv, argi, queue, fs, reads, writes, io>>
    /\ UNCHANGED textVars

NextMain == Start \/ NextArg \/ Visit \/ Return

SpecMain == InitMain /\ [][NextMain]_vars

----------------------------------------------------------------------------
(* Vocabulary of the properties *)

\* the match the next step of pattern.sub handles
StepMatch == search(html, pos)

\* what the step appended after the text it copied from before the match
Emitted(m) == SubSeq(out', Len(out) + (m.start - pos) + 1, Len(out'))

\* the step copied the text before the match unchanged
GapCopied(m) ==
    /\ Len(out') >= Len(out) + (m.start - pos)
    /\ SubSeq(out', 1, Len(out) + (m.start - pos))
         = out \o SubSeq(html, pos, m.start - 1)

\* the text between the '>' of the open tag and the '<' of the close tag
Between(m) == SubSeq(html, m.gt + 1, m.lt - 1)

HasInk(t) == \E k \in 1..Len(t) : ~IsSpace(t[k])

Protected(tag) == lower(tag) \in VOID \cup EXCLUDED

\* the words of t joined by single spaces
RECURSIVE JoinWords(_, _, _)
JoinWords(t, i, acc) ==
    IF i > Len(t) THEN acc
    ELSE IF IsSpace(t[i]) THEN JoinWords(t, i + 1, acc)
    ELSE IF i > 1 /\ IsSpace(t[i - 1]) /\ acc # <<>>
         THEN JoinWords(t, i + 1, acc \o <<" ", t[i]>>)
         ELSE JoinWords(t, i + 1, Append(acc, t[i]))

SpaceJoinedWords(t) == JoinWords(t, 1, <<>>)

IsUpper(c) == \E i \in 1..26 : c = UpperLetters[i]

StartsWith(d, x) == Len(d) >= Len(x) /\ SubSeq(d, 1, Len(x)) = x
EndsWith(d, x)   == Len(d) >= Len(x) /\ SubSeq(d, Len(d) - Len(x) + 1, Len(d)) = x

----------------------------------------------------------------------------
(* Properties of transform, checked under Spec *)

\* C1: transform is idempotent: applying it to its own output returns that
\* output unchanged, for every document, including documents with upper-case
\* tag names, '<' inside attribute text, protected spans and blank spans.
C1_Idempotent == pc = "done" => transform(out) = out

\* a rewritten document whose first pass lower-cased a tag name and thereby
\* created a span that starts earlier than any span of the input
C1_Witness ==
    /\ pc = "done"
    /\ out # html
    /\ search(html, 1).start > 1
    /\ search(out, 1).start = 1
    /\ transform(out) = out

\* the document is one excluded element: <name>content</name>
IsExcludedElement(d) ==
    \E name \in EXCLUDED :
        /\ Len(d) > Len(OpenTag(name, <<>>)) + Len(CloseTag(name))
        /\ StartsWith(d, OpenTag(name, <<>>))
        /\ EndsWith(d, CloseTag(name))

\* C2: everything between the open tag and the close tag of an excluded
\* element is byte-identical in the output, also when it contains tags.
C2_ExcludedContentVerbatim ==
    (pc = "done" /\ IsExcludedElement(html)) => out = html

\* C3: a matched span whose tag name is, in any letter case, in the void or
\* excluded set is emitted byte-identical, whatever its attribute text and
\* whatever whitespace its text has.
C3_ProtectedSpanVerbatim ==
    [][ (pc = "scan" /\ StepMatch # NoMatch /\ Protected(StepMatch.tag))
          => out' = out \o SubSeq(html, pos, StepMatch.end) ]_vars

\* an excluded span spelled with an upper-case letter, with attribute text and
\* with text that collapsing would change, came out unchanged
C3_Witness ==
    /\ pc = "done"
    /\ out = html
    /\ LET m == search(html, 1)
       IN /\ m.start = 1
          /\ m.end = Len(html)
          /\ lower(m.tag) \in EXCLUDED
          /\ m.tag # lower(m.tag)
          /\ m.attrs # <<>>
          /\ SpaceJoinedWords(Between(m)) # Between(m)
          /\ HasInk(Between(m))

\* C4: a matched span whose tag is neither void nor excluded and whose inner
\* text has a non-whitespace character is emitted as the open tag, a newline,
\* two spaces and the inner text with every whitespace run replaced by one
\* space and the surrounding whitespace removed, a newline, the close tag.
\* (The spelling of the tag name is the subject of C5 and is compared here
\* without regard to letter case.)
C4_ThreeLineLayout ==
    [][ (pc = "scan" /\ StepMatch # NoMatch /\ ~Protected(StepMatch.tag)
           /\ HasInk(Between(StepMatch)))
          => LET m        == StepMatch
                 openLen  == m.gt - m.start + 1
                 closeLen == m.end - m.lt + 1
                 body     == <<"\n", " ", " ">> \o SpaceJoinedWords(Between(m))
                                \o <<"\n">>
                 E        == Emitted(m)
             IN /\ GapCopied(m)
                /\ Len(E) = openLen + Len(body) + closeLen
                /\ lower(SubSeq(E, 1, openLen))
                     = lower(SubSeq(html, m.start, m.gt))
                /\ SubSeq(E, openLen + 1, openLen + Len(body)) = body
                /\ lower(SubSeq(E, openLen + Len(body) + 1, Len(E)))
                     = lower(SubSeq(html, m.lt, m.end)) ]_vars

C4_Witness == pc = "done" /\ html = ExCollapse /\ out = ExCollapseOut

\* C5: a rewritten span keeps its tag name as spelled in the input and its
\* attribute text: the emitted open tag is the input's open tag and the
\* emitted close tag is the input's close tag.
C5_TagSpellingKept ==
    [][ (pc = "scan" /\ StepMatch # NoMatch /\ ~Protected(StepMatch.tag)
           /\ HasInk(Between(StepMatch)))
          => LET m        == StepMatch
                 openLen  == m.gt - m.start + 1
                 closeLen == m.end - m.lt + 1
                 E        == Emitted(m)
             IN /\ Len(E) >= openLen + closeLen
                /\ SubSeq(E, 1, openLen) = SubSeq(html, m.start, m.gt)
                /\ SubSeq(E, Len(E) - closeLen + 1, Len(E))
                     = SubSeq(html, m.lt, m.end) ]_vars

\* C6: a matched span whose inner text is non-empty and all whitespace is
\* emitted unchanged; no empty reflowed block is produced.
C6_BlankSpanVerbatim ==
    [][ (pc = "scan" /\ StepMatch # NoMatch /\ ~HasInk(Between(StepMatch)))
          => out' = out \o SubSeq(html, pos, StepMatch.end) ]_vars

C6_Witness == pc = "done" /\ html = ExBlank /\ out = ExBlank

\* the document is <div>, optional direct text, content that starts with a
\* tag, optional direct text, </div>
DivContent(d) ==
    IF StartsWith(d, DivOpen \o <<"y", " ">>)
    THEN SubSeq(d, Len(DivOpen) + 3, Len(d) - Len(DivClose) - 2)
    ELSE SubSeq(d, Len(DivOpen) + 1, Len(d) - Len(DivClose))

DivBefore(d) ==
    IF StartsWith(d, DivOpen \o <<"y", " ">>)
    THEN DivOpen \o <<"y", " ">> ELSE DivOpen

DivAfter(d) ==
    IF StartsWith(d, DivOpen \o <<"y", " ">>)
    THEN <<" ", "y">> \o DivClose ELSE DivClose

IsDivAroundTags(d) ==
    /\ StartsWith(d, DivOpen)
    /\ EndsWith(d, DivAfter(d))
    /\ Len(d) > Len(DivBefore(d)) + Len(DivAfter(d))
    /\ DivContent(d)[1] = "<"

\* C7: an element whose content holds a tag is never rewritten itself (its
\* open tag, close tag and direct text stay byte-identical) while the
\* tag-free spans nested in it are rewritten as they would be on their own.
C7_OnlyInnermost ==
    (pc = "done" /\ IsDivAroundTags(html))
        => out = DivBefore(html) \o transform(DivContent(html)) \o DivAfter(html)

C7_Witness == pc = "done" /\ html = ExNested /\ out = ExNestedOut

\* indices of the non-whitespace characters of d, in order
Ink(d) == sorted({ k \in 1..Len(d) : ~IsSpace(d[k]) })

\* index k of d lies in the name of an open or close tag
InTagName(d, k) ==
    \E j \in 1..(k - 1) :
        /\ d[j] = "<"
        /\ \/ \A i \in (j + 1)..k : IsNameChar(d[i])
           \/ /\ j + 1 < k
              /\ d[j + 1] = "/"
              /\ \A i \in (j + 2)..k : IsNameChar(d[i])

\* C10: transform only changes whitespace and the letter case of tag names:
\* the non-whitespace characters of the output are those of the input, in
\* order, except that a letter of a tag name may be lower-cased.
C10_OnlyWhitespaceAndTagCase ==
    pc = "done" =>
        LET a == Ink(html)
            b == Ink(out)
        IN /\ Len(a) = Len(b)
           /\ \A i \in 1..Len(a) :
                \/ out[b[i]] = html[a[i]]
                \/ /\ out[b[i]] = lowerChar(html[a[i]])
                   /\ InTagName(html, a[i])

\* a span with an upper-case tag name and upper-case attribute text was
\* rewritten: whitespace moved and the tag name changed case
C10_Witness ==
    /\ pc = "done"
    /\ Len(out) # Len(html)
    /\ \E i \in 1..Len(Ink(html)) :
          /\ IsUpper(html[Ink(html)[i]])
          /\ out[Ink(out)[i]] # html[Ink(html)[i]]
    /\ \E i \in 1..Len(Ink(html)) :
          /\ IsUpper(html[Ink(html)[i]])
          /\ out[Ink(out)[i]] = html[Ink(html)[i]]

----------------------------------------------------------------------------
(* Properties of process_file and main, checked under SpecMain *)

\* a regular file whose extension is .html in any letter case
IsHtmlFile(p) ==
    /\ PathTable[p].kind = "file"
    /\ Len(PathTable[p].suffix) = 5
    /\ PathTable[p].suffix[1] = "."
    /\ PathTable[p].suffix[2] \in {"h", "H"}
    /\ PathTable[p].suffix[3] \in {"t", "T"}
    /\ PathTable[p].suffix[4] \in {"m", "M"}
    /\ PathTable[p].suffix[5] \in {"l", "L"}

\* C8: a processed .html file is written if and only if transform's result
\* differs from the text read, and then with that result; otherwise it is
\* left untouched; an entry that is not a regular .html file is never read
\* or written.
C8_WriteOnlyOnChange ==
    [][ (mpc = "loop" /\ queue # <<>>)
          => LET p == Head(queue)
             IN IF ~IsHtmlFile(p)
                THEN reads' = reads /\ writes' = writes /\ fs' = fs
                ELSE /\ reads' = Append(reads, p)
                     /\ io[p] # "noread" =>
                          /\ transform(fs[p]) # fs[p] => writes' = Append(writes, p)
                          /\ transform(fs[p]) = fs[p] => writes' = writes /\ fs' = fs
                          /\ io[p] = "ok" => fs' = [fs EXCEPT ![p] = transform(fs[p])]
                          /\ \A q \in Paths \ {p} : fs'[q] = fs[q] ]_vars

\* one run over "*" read both .html files, wrote the one that changed, left
\* the unchanged one alone and never touched the .txt file or the directory
C8_Witness ==
    /\ mpc = "exit0"
    /\ argv = <<"*">>
    /\ reads = <<1, 2>>
    /\ writes = <<1>>
    /\ fs[1] = ExampleReflowed
    /\ fs[2] = ExPre
    /\ transform(fs[3]) # fs[3]

\* the files a complete run reads: for every argument in order, the selected
\* entries of its glob in sorted order
RECURSIVE ExpectedReads(_, _)
ExpectedReads(args, i) ==
    IF i > Len(args) THEN <<>>
    ELSE SelectSeq(sorted(glob(args[i])), IsHtmlFile) \o ExpectedReads(args, i + 1)

\* C9: a failing read or write of one file does not abort the run: every
\* later file in argument and glob order is still processed.
C9_ErrorsIsolated ==
    mpc \in {"exit0", "raised"} => reads = ExpectedReads(argv, 1)

====
